---- MODULE Spec2Model ----
(***************************************************************************)
(* Model of the ingester state manager                                     *)
(* (quickwit-ingest/src/ingest_v2/state.rs).                               *)
(*                                                                         *)
(* The state is the content of InnerIngesterState (status, shards,         *)
(* rate_trackers), the watch channel carrying the status, the option slot  *)
(* holding the WAL, the two locks (the inner mutex and the reader-writer   *)
(* lock of the slot) and the position of every task: the init task spawned *)
(* by load, the callers of lock_partially/lock_fully and the fetch tasks   *)
(* that use the lock returned by mrecordlog().                             *)
(*                                                                         *)
(* A lock is granted to any task that requests it while it is free. tokio  *)
(* grants in FIFO order, so every state the program reaches is reached     *)
(* here as well.                                                           *)
(***************************************************************************)
EXTENDS Integers, Sequences, FiniteSets, TLC

\* Highest offset a WAL queue holds at boot, and highest offset a truncation asks for.
MaxOffset == 1

\* Most entries the control plane lists in shards_to_delete, and in shards_to_truncate.
MaxEntries == 2

InitTask == "init"
Callers == {"c1", "c2"}
Fetchers == {"f1"}
Tasks == {InitTask} \cup Callers \cup Fetchers
NoTask == "none"

QueueIds == {"idx:src:1", "idx:src:2"}

Beginning == [kind |-> "Beginning", offset |-> 0]
Offset(n) == [kind |-> "Offset", offset |-> n]
Positions == {Beginning} \cup {Offset(n) : n \in 0..MaxOffset}

\* Position order: Beginning is below every offset, offsets compare by value.
PositionLe(a, b) ==
    \/ a.kind = "Beginning"
    \/ a.kind = "Offset" /\ b.kind = "Offset" /\ a.offset <= b.offset

PositionGe(a, b) == PositionLe(b, a)

\* Position::as_u64: the offset projection, absent for Beginning.
HasOffset(p) == p.kind = "Offset"
AsU64(p) == p.offset

\* A WAL queue is the half-open range first..next-1 of the offsets it holds.
WalQueues == {[first |-> f, next |-> n] : f \in 0..(MaxOffset + 1), n \in 0..(MaxOffset + 1)}
\* The queues a WAL directory holds at boot: the non-empty ranges and the empty queue
\* (recovery reads of an empty queue only that it is empty).
InitialQueues == {w \in WalQueues : w.first < w.next \/ (w.first = 0 /\ w.next = 0)}

\* Every function from a subset of S to T.
PartialFunctions(S, T) == UNION {[D -> T] : D \in SUBSET S}

\* f without the key k.
RemoveKey(f, k) == [x \in DOMAIN f \ {k} |-> f[x]]

\* f with the key k set to v, inserted when absent.
InsertKey(f, k, v) == [x \in DOMAIN f \cup {k} |-> IF x = k THEN v ELSE f[x]]

VARIABLES
    status,         \* InnerIngesterState.status
    status_rx,      \* the last value sent on the watch channel
    shards,         \* InnerIngesterState.shards: queue id -> shard
    rate_trackers,  \* the keys of InnerIngesterState.rate_trackers
    mrecordlog,     \* the option slot: "None" or "Some"
    wal,            \* the queues of the WAL: queue id -> range
    inner_lock,     \* the task holding the inner mutex, or NoTask
    wal_writer,     \* the task holding the slot's lock for writing, or NoTask
    wal_readers,    \* the tasks holding the slot's lock for reading
    pc,             \* where each task is
    queue_ids,      \* init: the queues still to recover
    response,       \* init: how many entries of the response are left to read
    seen,           \* caller: the status its call read from the channel
    result,         \* caller: what its call returned, until its guard is dropped
    requested,      \* caller: the locks its call asked for, in order
    last_op,        \* the last truncate_shard or delete_shard call under the full
                    \* lock now held
    history         \* what init found and did, when init is followed on its own

vars == <<status, status_rx, shards, rate_trackers, mrecordlog, wal, inner_lock,
          wal_writer, wal_readers, pc, queue_ids, response, seen, result,
          requested, last_op, history>>

inner_vars == <<status, status_rx, shards, rate_trackers>>
lock_vars == <<inner_lock, wal_writer, wal_readers>>
init_vars == <<queue_ids, response>>
call_vars == <<seen, result, requested>>

NoResponse == [shards_to_delete |-> 0, shards_to_truncate |-> 0]
NoOp == [op |-> "none"]

\* The history before init has done anything.
NoHistory ==
    [empty_queues |-> {}, purge_failed |-> {}, inspect |-> "none",
     recovered |-> <<>>, deleted |-> {}, truncated |-> <<>>, io_error |-> FALSE,
     prev |-> NoOp, request |-> <<>>, wal_deleted |-> {}]

\* IngesterState::new, and a WAL directory holding any queues.
Init ==
    /\ status = "Initializing"
    /\ status_rx = "Initializing"
    /\ shards = <<>>
    /\ rate_trackers = {}
    /\ mrecordlog = "None"
    /\ wal \in PartialFunctions(QueueIds, InitialQueues)
    /\ inner_lock = NoTask
    /\ wal_writer = NoTask
    /\ wal_readers = {}
    /\ pc = [t \in Tasks |-> IF t = InitTask THEN "start" ELSE "idle"]
    /\ queue_ids = {}
    /\ response = NoResponse
    /\ seen = [c \in Callers |-> "none"]
    /\ result = [c \in Callers |-> "none"]
    /\ requested = [c \in Callers |-> <<>>]
    /\ last_op = NoOp
    /\ history = NoHistory

Goto(t, loc) == pc' = [pc EXCEPT ![t] = loc]

InnerFree == inner_lock = NoTask
WalFreeForWrite == wal_writer = NoTask /\ wal_readers = {}
WalFreeForRead == wal_writer = NoTask


Release(t) ==
    /\ inner_lock' = IF inner_lock = t THEN NoTask ELSE inner_lock
    /\ wal_writer' = IF wal_writer = t THEN NoTask ELSE wal_writer
    /\ wal_readers' = wal_readers \ {t}

\* IngesterShard::new_solo
NewSolo(shard_state, replication_position_inclusive, truncation_position_inclusive) ==
    [shard_state |-> shard_state,
     replication_position_inclusive |-> replication_position_inclusive,
     truncation_position_inclusive |-> truncation_position_inclusive]

\* queue_position_range: the first and last offsets of a queue, absent when it is empty.
QueueIsEmpty(w, queue_id) == w[queue_id].first = w[queue_id].next
QueuePositionRange(w, queue_id) ==
    [start |-> w[queue_id].first, end |-> w[queue_id].next - 1]

\* MultiRecordLog::truncate on the queues in memory: drops the offsets up to `upto`.
WalTruncated(w, queue_id, upto) ==
    IF w[queue_id].first > upto THEN w
    ELSE IF upto + 1 >= w[queue_id].next
         THEN [w EXCEPT ![queue_id].first = w[queue_id].next]
         ELSE [w EXCEPT ![queue_id].first = upto + 1]

\* The results MultiRecordLog::truncate and delete_queue can give for a queue. An
\* I/O error is raised before or after the queues in memory are changed.
WalOutcomes(w, queue_id) ==
    IF queue_id \in DOMAIN w THEN {"Ok", "IoError"} ELSE {"MissingQueue"}

\* InnerIngesterState::set_status in its two steps: the write, then the send.
SetStatusSwapped(step, s) ==
    IF step = 1
    THEN status_rx' = s /\ UNCHANGED status
    ELSE status' = s /\ UNCHANGED status_rx

set_status(step, s) ==
    IF step = 1
    THEN status' = s /\ UNCHANGED status_rx
    ELSE status_rx' = s /\ UNCHANGED status

\* truncate_shard's test of the current truncation position, without the test.
NeverStale(queue_id, up_to) == FALSE

\* truncate_shard: the shard is already truncated up to `up_to`.
IsStale(queue_id, up_to) ==
    PositionGe(shards[queue_id].truncation_position_inclusive, up_to)

\* truncate_shard on a missing queue, keeping the rate tracker of the dangling shard.
KeepRateTracker(queue_id) == rate_trackers

\* truncate_shard on a missing queue: the rate trackers without the dangling shard's.
RemoveRateTracker(queue_id) == rate_trackers \ {queue_id}

\* A truncate_shard that asks the WAL before it looks the shard up.
TruncateShardBeforeLookup(queue_id, up_to, outcome, applied) ==
    IF \/ ~HasOffset(up_to)
       \/ queue_id \in DOMAIN shards /\ IsStale(queue_id, up_to)
    THEN /\ outcome = "NotCalled" /\ applied = FALSE
         /\ UNCHANGED <<shards, rate_trackers, wal>>
         /\ last_op' = [op |-> "truncate_shard", queue_id |-> queue_id,
                        position |-> up_to, outcome |-> outcome]
    ELSE /\ outcome \in WalOutcomes(wal, queue_id)
         /\ applied \in (IF outcome = "IoError" THEN BOOLEAN ELSE {outcome = "Ok"})
         /\ wal' = IF applied THEN WalTruncated(wal, queue_id, AsU64(up_to)) ELSE wal
         /\ shards' =
              CASE outcome = "Ok" /\ queue_id \in DOMAIN shards ->
                     [shards EXCEPT ![queue_id].truncation_position_inclusive = up_to]
                [] outcome = "MissingQueue" -> RemoveKey(shards, queue_id)
                [] OTHER -> shards
         /\ rate_trackers' =
              IF outcome = "MissingQueue" THEN RemoveRateTracker(queue_id)
              ELSE rate_trackers
         /\ last_op' = [op |-> "truncate_shard", queue_id |-> queue_id,
                        position |-> up_to, outcome |-> outcome]

\* A truncate_shard that records the position whether or not the WAL truncated.
TruncateShardIgnoresError(queue_id, up_to, outcome, applied) ==
    IF \/ ~HasOffset(up_to)
       \/ queue_id \notin DOMAIN shards
       \/ IsStale(queue_id, up_to)
    THEN /\ outcome = "NotCalled" /\ applied = FALSE
         /\ UNCHANGED <<shards, rate_trackers, wal>>
         /\ last_op' = [op |-> "truncate_shard", queue_id |-> queue_id,
                        position |-> up_to, outcome |-> outcome]
    ELSE /\ outcome \in WalOutcomes(wal, queue_id)
         /\ applied \in (IF outcome = "IoError" THEN BOOLEAN ELSE {outcome = "Ok"})
         /\ wal' = IF applied THEN WalTruncated(wal, queue_id, AsU64(up_to)) ELSE wal
         /\ shards' =
              CASE outcome \in {"Ok", "IoError"} ->
                     [shards EXCEPT ![queue_id].truncation_position_inclusive = up_to]
                [] outcome = "MissingQueue" -> RemoveKey(shards, queue_id)
                [] OTHER -> shards
         /\ rate_trackers' =
              IF outcome = "MissingQueue" THEN RemoveRateTracker(queue_id)
              ELSE rate_trackers
         /\ last_op' = [op |-> "truncate_shard", queue_id |-> queue_id,
                        position |-> up_to, outcome |-> outcome]

\* FullyLockedIngesterState::truncate_shard. `outcome` is what the WAL answers
\* ("NotCalled" when the WAL is not asked) and `applied` whether the WAL dropped the
\* records.
truncate_shard(queue_id, up_to, outcome, applied) ==
    IF \/ ~HasOffset(up_to)
       \/ queue_id \notin DOMAIN shards
       \/ IsStale(queue_id, up_to)
    THEN /\ outcome = "NotCalled" /\ applied = FALSE
         /\ UNCHANGED <<shards, rate_trackers, wal>>
         /\ last_op' = [op |-> "truncate_shard", queue_id |-> queue_id,
                        position |-> up_to, outcome |-> outcome]
    ELSE /\ outcome \in WalOutcomes(wal, queue_id)
         /\ applied \in (IF outcome = "IoError" THEN BOOLEAN ELSE {outcome = "Ok"})
         /\ wal' = IF applied THEN WalTruncated(wal, queue_id, AsU64(up_to)) ELSE wal
         /\ shards' =
              CASE outcome = "Ok" ->
                     [shards EXCEPT ![queue_id].truncation_position_inclusive = up_to]
                [] outcome = "MissingQueue" -> RemoveKey(shards, queue_id)
                [] OTHER -> shards
         /\ rate_trackers' =
              IF outcome = "MissingQueue" THEN RemoveRateTracker(queue_id)
              ELSE rate_trackers
         /\ last_op' = [op |-> "truncate_shard", queue_id |-> queue_id,
                        position |-> up_to, outcome |-> outcome]

\* A delete_shard that forgets the shard whatever the WAL answers.
DeleteShardWhateverTheWal(queue_id, outcome, applied) ==
    IF queue_id \notin DOMAIN shards
    THEN /\ outcome = "NotCalled" /\ applied = FALSE
         /\ UNCHANGED <<shards, rate_trackers, wal>>
         /\ last_op' = [op |-> "delete_shard", queue_id |-> queue_id,
                        position |-> Beginning, outcome |-> outcome]
    ELSE /\ outcome \in WalOutcomes(wal, queue_id)
         /\ applied \in (IF outcome = "IoError" THEN BOOLEAN ELSE {outcome = "Ok"})
         /\ wal' = IF applied THEN RemoveKey(wal, queue_id) ELSE wal
         /\ shards' = RemoveKey(shards, queue_id)
         /\ rate_trackers' = rate_trackers \ {queue_id}
         /\ last_op' = [op |-> "delete_shard", queue_id |-> queue_id,
                        position |-> Beginning, outcome |-> outcome]

\* A delete_shard that forgets the shard only when the WAL has lost the queue.
DeleteShardOnMissingQueueOnly(queue_id, outcome, applied) ==
    IF queue_id \notin DOMAIN shards
    THEN /\ outcome = "NotCalled" /\ applied = FALSE
         /\ UNCHANGED <<shards, rate_trackers, wal>>
         /\ last_op' = [op |-> "delete_shard", queue_id |-> queue_id,
                        position |-> Beginning, outcome |-> outcome]
    ELSE /\ outcome \in WalOutcomes(wal, queue_id)
         /\ applied \in (IF outcome = "IoError" THEN BOOLEAN ELSE {outcome = "Ok"})
         /\ wal' = IF applied THEN RemoveKey(wal, queue_id) ELSE wal
         /\ shards' = IF outcome = "MissingQueue"
                      THEN RemoveKey(shards, queue_id) ELSE shards
         /\ rate_trackers' = IF outcome = "MissingQueue"
                             THEN rate_trackers \ {queue_id} ELSE rate_trackers
         /\ last_op' = [op |-> "delete_shard", queue_id |-> queue_id,
                        position |-> Beginning, outcome |-> outcome]

\* FullyLockedIngesterState::delete_shard, with `outcome` and `applied` as above.
delete_shard(queue_id, outcome, applied) ==
    IF queue_id \notin DOMAIN shards
    THEN /\ outcome = "NotCalled" /\ applied = FALSE
         /\ UNCHANGED <<shards, rate_trackers, wal>>
         /\ last_op' = [op |-> "delete_shard", queue_id |-> queue_id,
                        position |-> Beginning, outcome |-> outcome]
    ELSE /\ outcome \in WalOutcomes(wal, queue_id)
         /\ applied \in (IF outcome = "IoError" THEN BOOLEAN ELSE {outcome = "Ok"})
         /\ wal' = IF applied THEN RemoveKey(wal, queue_id) ELSE wal
         /\ shards' = IF outcome \in {"Ok", "MissingQueue"}
                      THEN RemoveKey(shards, queue_id) ELSE shards
         /\ rate_trackers' = IF outcome \in {"Ok", "MissingQueue"}
                             THEN rate_trackers \ {queue_id} ELSE rate_trackers
         /\ last_op' = [op |-> "delete_shard", queue_id |-> queue_id,
                        position |-> Beginning, outcome |-> outcome]

Outcomes == {"NotCalled", "Ok", "MissingQueue", "IoError"}


\* What the control plane may answer to inspect_shards: so many queues to delete and
\* so many to truncate. The queue and the position of an entry are drawn when
\* repair_shards reads the entry.
Responses ==
    [shards_to_delete : 0..MaxEntries, shards_to_truncate : 0..MaxEntries]

(***************************************************************************)
(* IngesterState::init                                                     *)
(***************************************************************************)

\* self.inner.lock().await
InitLockInner ==
    /\ pc[InitTask] = "start"
    /\ InnerFree
    /\ inner_lock' = InitTask
    /\ Goto(InitTask, "lock_wal")
    /\ UNCHANGED <<inner_vars, mrecordlog, wal, wal_writer, wal_readers, init_vars,
                   call_vars, last_op, history>>

\* self.mrecordlog.write().await
InitLockWal ==
    /\ pc[InitTask] = "lock_wal"
    /\ WalFreeForWrite
    /\ wal_writer' = InitTask
    /\ Goto(InitTask, "open")
    /\ UNCHANGED <<inner_vars, mrecordlog, wal, inner_lock, wal_readers, init_vars,
                   call_vars, last_op, history>>

\* MultiRecordLog::open_with_prefs succeeds: list the queues.
InitOpenOk ==
    /\ pc[InitTask] = "open"
    /\ queue_ids' = DOMAIN wal
    /\ Goto(InitTask, "recover")
    /\ UNCHANGED <<inner_vars, mrecordlog, wal, lock_vars, response, call_vars, last_op, history>>

\* MultiRecordLog::open_with_prefs fails: set_status(Failed) writes the status.
InitOpenFailed ==
    /\ pc[InitTask] = "open"
    /\ set_status(1, "Failed")
    /\ Goto(InitTask, "send_failed")
    /\ UNCHANGED <<shards, rate_trackers, mrecordlog, wal, lock_vars, init_vars,
                   call_vars, last_op, history>>

\* An init whose failure branch does not return: it goes on to the recovery loop.
InitSendFailedNoReturn ==
    /\ pc[InitTask] = "send_failed"
    /\ set_status(2, "Failed")
    /\ Goto(InitTask, "recover")
    /\ UNCHANGED <<shards, rate_trackers, mrecordlog, wal, lock_vars, init_vars,
                   call_vars, last_op, history>>

\* set_status(Failed) sends the status, and init returns, dropping both guards.
InitSendFailed ==
    /\ pc[InitTask] = "send_failed"
    /\ set_status(2, "Failed")
    /\ Release(InitTask)
    /\ Goto(InitTask, "done")
    /\ UNCHANGED <<shards, rate_trackers, mrecordlog, wal, init_vars, call_vars, last_op, history>>

\* A recovery loop that takes the first offset still held for the truncation position.
InitRecoverShardFromFirst(queue_id) ==
    /\ pc[InitTask] = "recover"
    /\ queue_id \in queue_ids
    /\ ~QueueIsEmpty(wal, queue_id)
    /\ LET position_range == QueuePositionRange(wal, queue_id)
           replication_position_inclusive == Offset(position_range.end)
           truncation_position_inclusive ==
               IF position_range.start = 0 THEN Beginning
               ELSE Offset(position_range.start)
       IN  shards' = InsertKey(shards, queue_id,
                               NewSolo("Closed", replication_position_inclusive,
                                       truncation_position_inclusive))
    /\ rate_trackers' = rate_trackers \cup {queue_id}
    /\ queue_ids' = queue_ids \ {queue_id}
    /\ UNCHANGED <<status, status_rx, mrecordlog, wal, lock_vars, pc, response,
                   call_vars, last_op, history>>

\* One turn of the recovery loop on a queue that holds records.
InitRecoverShard(queue_id) ==
    /\ pc[InitTask] = "recover"
    /\ queue_id \in queue_ids
    /\ ~QueueIsEmpty(wal, queue_id)
    /\ LET position_range == QueuePositionRange(wal, queue_id)
           replication_position_inclusive == Offset(position_range.end)
           truncation_position_inclusive ==
               IF position_range.start = 0 THEN Beginning
               ELSE Offset(position_range.start - 1)
       IN  shards' = InsertKey(shards, queue_id,
                               NewSolo("Closed", replication_position_inclusive,
                                       truncation_position_inclusive))
    /\ rate_trackers' = rate_trackers \cup {queue_id}
    /\ queue_ids' = queue_ids \ {queue_id}
    /\ UNCHANGED <<status, status_rx, mrecordlog, wal, lock_vars, pc, response,
                   call_vars, last_op, history>>

\* A recovery loop that leaves the empty queues in the WAL.
KeepEmptyQueue(queue_id, ok) ==
    /\ pc[InitTask] = "recover"
    /\ queue_id \in queue_ids
    /\ QueueIsEmpty(wal, queue_id)
    /\ queue_ids' = queue_ids \ {queue_id}
    /\ UNCHANGED <<inner_vars, mrecordlog, wal, lock_vars, pc, response, call_vars,
                   last_op>>

\* One turn of the recovery loop on an empty queue: force_delete_queue, which may fail.
DeleteEmptyQueue(queue_id, ok) ==
    /\ pc[InitTask] = "recover"
    /\ queue_id \in queue_ids
    /\ QueueIsEmpty(wal, queue_id)
    /\ wal' = IF ok THEN RemoveKey(wal, queue_id) ELSE wal
    /\ queue_ids' = queue_ids \ {queue_id}
    /\ UNCHANGED <<inner_vars, mrecordlog, lock_vars, pc, response, call_vars, last_op>>

InitDeleteEmptyQueue(queue_id, ok) ==
    DeleteEmptyQueue(queue_id, ok) /\ UNCHANGED history

\* The end of the recovery with the status set and the slot left as it was.
InstallStatusOnly ==
    /\ pc[InitTask] = "recover"
    /\ queue_ids = {}
    /\ set_status(1, "Ready")
    /\ Goto(InitTask, "send_ready")
    /\ UNCHANGED <<shards, rate_trackers, mrecordlog, wal, lock_vars, init_vars, call_vars,
                   last_op>>

\* After the loop: the WAL goes into the slot and set_status(Ready) writes the status.
Install ==
    /\ pc[InitTask] = "recover"
    /\ queue_ids = {}
    /\ mrecordlog' = "Some"
    /\ set_status(1, "Ready")
    /\ Goto(InitTask, "send_ready")
    /\ UNCHANGED <<shards, rate_trackers, wal, lock_vars, init_vars, call_vars, last_op>>

InitInstall == Install /\ UNCHANGED history

\* An init that drops its guards once Ready is sent, before it repairs.
InitSendReadyDropsGuards ==
    /\ pc[InitTask] = "send_ready"
    /\ set_status(2, "Ready")
    /\ Release(InitTask)
    /\ Goto(InitTask, "inspect")
    /\ UNCHANGED <<shards, rate_trackers, mrecordlog, wal, init_vars, call_vars, last_op,
                   history>>

\* set_status(Ready) sends the status.
InitSendReady ==
    /\ pc[InitTask] = "send_ready"
    /\ set_status(2, "Ready")
    /\ Goto(InitTask, "inspect")
    /\ UNCHANGED <<shards, rate_trackers, mrecordlog, wal, lock_vars, init_vars,
                   call_vars, last_op, history>>

\* inspect_shards answers: repair_shards starts on the response.
InspectOk(inspect_shards_response) ==
    /\ pc[InitTask] = "inspect"
    /\ response' = inspect_shards_response
    /\ Goto(InitTask, "repair")
    /\ UNCHANGED <<inner_vars, mrecordlog, wal, lock_vars, queue_ids, call_vars, last_op>>

InitInspectOk(inspect_shards_response) ==
    InspectOk(inspect_shards_response) /\ UNCHANGED history

\* An init that, inspect_shards having failed, repairs as if every shard were listed.
InspectFailedRepairsAnyway ==
    /\ pc[InitTask] = "inspect"
    /\ response' = [shards_to_delete |-> MaxEntries, shards_to_truncate |-> MaxEntries]
    /\ Goto(InitTask, "repair")
    /\ UNCHANGED <<inner_vars, mrecordlog, wal, lock_vars, queue_ids, call_vars, last_op>>

\* An init that returns from a failed inspect_shards without dropping the full lock.
InspectFailedKeepsGuard ==
    /\ pc[InitTask] = "inspect"
    /\ Goto(InitTask, "done")
    /\ UNCHANGED <<inner_vars, mrecordlog, wal, lock_vars, init_vars, call_vars, last_op>>

\* inspect_shards fails: init returns, dropping the full lock.
InspectFailed ==
    /\ pc[InitTask] = "inspect"
    /\ Release(InitTask)
    /\ Goto(InitTask, "done")
    /\ UNCHANGED <<inner_vars, mrecordlog, wal, init_vars, call_vars, last_op>>

InitInspectFailed == InspectFailed /\ UNCHANGED history

\* A repair_shards that reads an entry of shards_to_delete and does not delete.
RepairDeleteSkipped(queue_id, outcome, applied) ==
    /\ pc[InitTask] = "repair"
    /\ response.shards_to_delete > 0
    /\ outcome = "NotCalled" /\ applied = FALSE
    /\ response' = [response EXCEPT !.shards_to_delete = @ - 1]
    /\ UNCHANGED <<inner_vars, mrecordlog, wal, lock_vars, pc, queue_ids, call_vars,
                   last_op>>

\* repair_shards: the next entry of shards_to_delete.
RepairDelete(queue_id, outcome, applied) ==
    /\ pc[InitTask] = "repair"
    /\ response.shards_to_delete > 0
    /\ delete_shard(queue_id, outcome, applied)
    /\ response' = [response EXCEPT !.shards_to_delete = @ - 1]
    /\ UNCHANGED <<status, status_rx, mrecordlog, lock_vars, pc, queue_ids, call_vars>>

InitRepairDelete(queue_id, outcome, applied) ==
    RepairDelete(queue_id, outcome, applied) /\ UNCHANGED history

\* repair_shards with the truncates not waiting for the deletes.
RepairTruncateAnyTime(queue_id, position, outcome, applied) ==
    /\ pc[InitTask] = "repair"
    /\ response.shards_to_truncate > 0
    /\ truncate_shard(queue_id, position, outcome, applied)
    /\ response' = [response EXCEPT !.shards_to_truncate = @ - 1]
    /\ UNCHANGED <<status, status_rx, mrecordlog, lock_vars, pc, queue_ids, call_vars>>

\* repair_shards: the next entry of shards_to_truncate, once the deletes are done.
RepairTruncate(queue_id, position, outcome, applied) ==
    /\ pc[InitTask] = "repair"
    /\ response.shards_to_delete = 0
    /\ response.shards_to_truncate > 0
    /\ truncate_shard(queue_id, position, outcome, applied)
    /\ response' = [response EXCEPT !.shards_to_truncate = @ - 1]
    /\ UNCHANGED <<status, status_rx, mrecordlog, lock_vars, pc, queue_ids, call_vars>>

InitRepairTruncate(queue_id, position, outcome, applied) ==
    RepairTruncate(queue_id, position, outcome, applied) /\ UNCHANGED history

\* repair_shards is over: init returns, dropping the full lock.
InitDone ==
    /\ pc[InitTask] = "repair"
    /\ response.shards_to_delete = 0
    /\ response.shards_to_truncate = 0
    /\ Release(InitTask)
    /\ last_op' = NoOp
    /\ Goto(InitTask, "done")
    /\ UNCHANGED <<inner_vars, mrecordlog, wal, init_vars, call_vars, history>>

InitStep ==
    \/ InitLockInner
    \/ InitLockWal
    \/ InitOpenOk
    \/ InitOpenFailed
    \/ InitSendFailed
    \/ \E queue_id \in QueueIds : InitRecoverShard(queue_id)
    \/ \E queue_id \in QueueIds, ok \in BOOLEAN : InitDeleteEmptyQueue(queue_id, ok)
    \/ InitInstall
    \/ InitSendReady
    \/ \E r \in Responses : InitInspectOk(r)
    \/ InitInspectFailed
    \/ \E queue_id \in QueueIds, outcome \in Outcomes, applied \in BOOLEAN :
          InitRepairDelete(queue_id, outcome, applied)
    \/ \E queue_id \in QueueIds, position \in Positions, outcome \in Outcomes,
          applied \in BOOLEAN : InitRepairTruncate(queue_id, position, outcome, applied)
    \/ InitDone


(***************************************************************************)
(* IngesterState::lock_partially and IngesterState::lock_fully             *)
(***************************************************************************)

\* A gate that turns the calls away on Failed instead of Initializing.
GateRejectsFailed(published) == published = "Failed"

\* A gate that lets every status through.
GateRejectsNothing(published) == FALSE

\* The first test of both methods, on the status borrowed from the channel.
GateRejects(published) == published = "Initializing"

\* A lock_partially without its test of inner.status.
PartialNeverFailed(inner_status) == FALSE

\* lock_partially's test of inner.status, made under the inner lock.
PartialSeesFailed(inner_status) == inner_status = "Failed"

\* A lock_fully without its test of inner.status.
FullNeverFailed(inner_status) == FALSE

\* lock_fully's test of inner.status, made under both locks.
FullSeesFailed(inner_status) == inner_status = "Failed"

\* A lock_partially that reads the status from inner, under the inner lock.
LockPartiallyGateUnderLock(c) ==
    /\ pc[c] = "idle"
    /\ InnerFree
    /\ seen' = [seen EXCEPT ![c] = status]
    /\ IF GateRejects(status)
       THEN /\ result' = [result EXCEPT ![c] = "ErrInitializing"]
            /\ requested' = [requested EXCEPT ![c] = <<"inner">>]
            /\ UNCHANGED pc
       ELSE /\ result' = [result EXCEPT ![c] = "pending"]
            /\ requested' = [requested EXCEPT ![c] = <<"inner">>]
            /\ Goto(c, "p_wait_inner")
    /\ UNCHANGED <<inner_vars, mrecordlog, wal, lock_vars, init_vars, last_op, history>>

\* lock_partially up to its request of the inner lock: the call returns the
\* "ingester is initializing" error, or goes on to ask for the lock.
LockPartiallyGate(c) ==
    /\ pc[c] = "idle"
    /\ seen' = [seen EXCEPT ![c] = status_rx]
    /\ IF GateRejects(status_rx)
       THEN /\ result' = [result EXCEPT ![c] = "ErrInitializing"]
            /\ requested' = [requested EXCEPT ![c] = <<>>]
            /\ UNCHANGED pc
       ELSE /\ result' = [result EXCEPT ![c] = "pending"]
            /\ requested' = [requested EXCEPT ![c] = <<"inner">>]
            /\ Goto(c, "p_wait_inner")
    /\ UNCHANGED <<inner_vars, mrecordlog, wal, lock_vars, init_vars, last_op, history>>

\* lock_partially once the inner lock is granted: the "failed to initialize
\* ingester" error, which drops the guard, or the partial lock.
LockPartiallyAcquire(c) ==
    /\ pc[c] = "p_wait_inner"
    /\ InnerFree
    /\ IF PartialSeesFailed(status)
       THEN /\ result' = [result EXCEPT ![c] = "ErrFailed"]
            /\ Goto(c, "idle")
            /\ UNCHANGED inner_lock
       ELSE /\ result' = [result EXCEPT ![c] = "Guard"]
            /\ Goto(c, "p_held")
            /\ inner_lock' = c
    /\ UNCHANGED <<inner_vars, mrecordlog, wal, wal_writer, wal_readers, init_vars,
                   seen, requested, last_op, history>>

\* The caller drops its PartiallyLockedIngesterState.
DropPartial(c) ==
    /\ pc[c] = "p_held"
    /\ Release(c)
    /\ Goto(c, "idle")
    /\ seen' = [seen EXCEPT ![c] = "none"]
    /\ result' = [result EXCEPT ![c] = "none"]
    /\ requested' = [requested EXCEPT ![c] = <<>>]
    /\ UNCHANGED <<inner_vars, mrecordlog, wal, init_vars, last_op, history>>

\* lock_fully up to its request of the WAL lock.
LockFullyGate(c) ==
    /\ pc[c] = "idle"
    /\ seen' = [seen EXCEPT ![c] = status_rx]
    /\ IF GateRejects(status_rx)
       THEN /\ result' = [result EXCEPT ![c] = "ErrInitializing"]
            /\ requested' = [requested EXCEPT ![c] = <<>>]
            /\ UNCHANGED pc
       ELSE /\ result' = [result EXCEPT ![c] = "pending"]
            /\ requested' = [requested EXCEPT ![c] = <<"wal">>]
            /\ Goto(c, "f_wait_wal")
    /\ UNCHANGED <<inner_vars, mrecordlog, wal, lock_vars, init_vars, last_op, history>>

\* lock_fully is granted the WAL lock for writing and asks for the inner lock.
LockFullyLockWal(c) ==
    /\ pc[c] = "f_wait_wal"
    /\ WalFreeForWrite
    /\ wal_writer' = c
    /\ requested' = [requested EXCEPT ![c] = Append(@, "inner")]
    /\ Goto(c, "f_wait_inner")
    /\ UNCHANGED <<inner_vars, mrecordlog, wal, inner_lock, wal_readers, init_vars,
                   seen, result, last_op, history>>

\* A lock_fully whose failed error leaves the guard of the WAL lock behind.
LockFullyAcquireLeaksGuard(c) ==
    /\ pc[c] = "f_wait_inner"
    /\ InnerFree
    /\ IF FullSeesFailed(status)
       THEN /\ result' = [result EXCEPT ![c] = "ErrFailed"]
            /\ Goto(c, "idle")
            /\ UNCHANGED <<wal_writer, inner_lock>>
       ELSE IF mrecordlog = "None"
       THEN /\ result' = [result EXCEPT ![c] = "Panic"]
            /\ Goto(c, "panicked")
            /\ wal_writer' = NoTask
            /\ UNCHANGED inner_lock
       ELSE /\ result' = [result EXCEPT ![c] = "Guard"]
            /\ Goto(c, "f_held")
            /\ inner_lock' = c
            /\ UNCHANGED wal_writer
    /\ UNCHANGED <<inner_vars, mrecordlog, wal, wal_readers, init_vars, seen,
                   requested, last_op, history>>

\* lock_fully once the inner lock is granted: the "failed to initialize ingester"
\* error, which drops both guards, the panic of expect on an empty slot, which
\* drops them too, or the full lock.
LockFullyAcquire(c) ==
    /\ pc[c] = "f_wait_inner"
    /\ InnerFree
    /\ IF FullSeesFailed(status)
       THEN /\ result' = [result EXCEPT ![c] = "ErrFailed"]
            /\ Goto(c, "idle")
            /\ wal_writer' = NoTask
            /\ UNCHANGED inner_lock
       ELSE IF mrecordlog = "None"
       THEN /\ result' = [result EXCEPT ![c] = "Panic"]
            /\ Goto(c, "panicked")
            /\ wal_writer' = NoTask
            /\ UNCHANGED inner_lock
       ELSE /\ result' = [result EXCEPT ![c] = "Guard"]
            /\ Goto(c, "f_held")
            /\ inner_lock' = c
            /\ UNCHANGED wal_writer
    /\ UNCHANGED <<inner_vars, mrecordlog, wal, wal_readers, init_vars, seen,
                   requested, last_op, history>>

\* A holder of the full lock calls truncate_shard.
TruncateShard(c, queue_id, up_to, outcome, applied) ==
    /\ pc[c] = "f_held"
    /\ truncate_shard(queue_id, up_to, outcome, applied)
    /\ UNCHANGED <<status, status_rx, mrecordlog, lock_vars, pc, init_vars, call_vars, history>>

\* A holder of the full lock calls delete_shard.
DeleteShard(c, queue_id, outcome, applied) ==
    /\ pc[c] = "f_held"
    /\ delete_shard(queue_id, outcome, applied)
    /\ UNCHANGED <<status, status_rx, mrecordlog, lock_vars, pc, init_vars, call_vars, history>>

\* The caller drops its FullyLockedIngesterState.
DropFull(c) ==
    /\ pc[c] = "f_held"
    /\ Release(c)
    /\ last_op' = NoOp
    /\ Goto(c, "idle")
    /\ seen' = [seen EXCEPT ![c] = "none"]
    /\ result' = [result EXCEPT ![c] = "none"]
    /\ requested' = [requested EXCEPT ![c] = <<>>]
    /\ UNCHANGED <<inner_vars, mrecordlog, wal, init_vars, history>>

CallerStep(c) ==
    \/ LockPartiallyGate(c)
    \/ LockPartiallyAcquire(c)
    \/ DropPartial(c)
    \/ LockFullyGate(c)
    \/ LockFullyLockWal(c)
    \/ LockFullyAcquire(c)
    \/ \E queue_id \in QueueIds, up_to \in Positions, outcome \in Outcomes,
          applied \in BOOLEAN : TruncateShard(c, queue_id, up_to, outcome, applied)
    \/ \E queue_id \in QueueIds, outcome \in Outcomes, applied \in BOOLEAN :
          DeleteShard(c, queue_id, outcome, applied)
    \/ DropFull(c)

(***************************************************************************)
(* Fetch tasks, on the lock handed out by IngesterState::mrecordlog        *)
(***************************************************************************)

\* The task asks for the lock for reading.
FetchRequest(f) ==
    /\ pc[f] = "idle"
    /\ Goto(f, "r_wait")
    /\ UNCHANGED <<inner_vars, mrecordlog, wal, lock_vars, init_vars, call_vars, last_op, history>>

\* The lock is granted for reading.
FetchLock(f) ==
    /\ pc[f] = "r_wait"
    /\ WalFreeForRead
    /\ wal_readers' = wal_readers \cup {f}
    /\ Goto(f, "r_held")
    /\ UNCHANGED <<inner_vars, mrecordlog, wal, inner_lock, wal_writer, init_vars,
                   call_vars, last_op, history>>

\* The task drops its read guard.
FetchUnlock(f) ==
    /\ pc[f] = "r_held"
    /\ Release(f)
    /\ Goto(f, "idle")
    /\ UNCHANGED <<inner_vars, mrecordlog, wal, init_vars, call_vars, last_op, history>>

FetchStep(f) ==
    \/ FetchRequest(f)
    \/ FetchLock(f)
    \/ FetchUnlock(f)

Next ==
    \/ InitStep
    \/ \E c \in Callers : CallerStep(c)
    \/ \E f \in Fetchers : FetchStep(f)

Spec == Init /\ [][Next]_vars

(***************************************************************************)
(* init followed on its own, as test_ingester_state_init awaits it, with   *)
(* the history of what its recovery and its repair found and did           *)
(***************************************************************************)

\* What recovery has left, as repair finds it.
Recovered == [shards |-> shards, rate_trackers |-> rate_trackers, wal |-> wal]

\* The higher of the positions already read for a queue and the one read now.
HighestRead(truncated, queue_id, position) ==
    IF queue_id \in DOMAIN truncated /\ PositionGe(truncated[queue_id], position)
    THEN truncated[queue_id]
    ELSE position

RecordedDeleteEmptyQueue(queue_id, ok) ==
    /\ DeleteEmptyQueue(queue_id, ok)
    /\ history' = [history EXCEPT !.empty_queues = @ \cup {queue_id},
                                  !.purge_failed = IF ok THEN @ ELSE @ \cup {queue_id}]

RecordedInstall ==
    /\ Install
    /\ history' = [history EXCEPT !.recovered = Recovered]

RecordedInspectOk(inspect_shards_response) ==
    /\ InspectOk(inspect_shards_response)
    /\ history' = [history EXCEPT !.inspect = "Ok"]

RecordedInspectFailed ==
    /\ InspectFailed
    /\ history' = [history EXCEPT !.inspect = "Err"]

RecordedRepairDelete(queue_id, outcome, applied) ==
    /\ RepairDelete(queue_id, outcome, applied)
    /\ history' = [history EXCEPT !.deleted = @ \cup {queue_id},
                                  !.io_error = @ \/ outcome = "IoError",
                                  !.prev = last_op,
                                  !.wal_deleted = IF outcome = "Ok"
                                                  THEN @ \cup {queue_id} ELSE @]

RecordedRepairTruncate(queue_id, position, outcome, applied) ==
    /\ RepairTruncate(queue_id, position, outcome, applied)
    /\ history' = [history EXCEPT
                      !.truncated = InsertKey(@, queue_id,
                                              HighestRead(@, queue_id, position)),
                      !.io_error = @ \/ outcome = "IoError",
                      !.prev = last_op]

RecordedInit ==
    \/ InitLockInner
    \/ InitLockWal
    \/ InitOpenOk
    \/ InitOpenFailed
    \/ InitSendFailed
    \/ \E queue_id \in QueueIds : InitRecoverShard(queue_id)
    \/ \E queue_id \in QueueIds, ok \in BOOLEAN : RecordedDeleteEmptyQueue(queue_id, ok)
    \/ RecordedInstall
    \/ InitSendReady
    \/ \E r \in Responses : RecordedInspectOk(r)
    \/ RecordedInspectFailed
    \/ \E queue_id \in QueueIds, outcome \in Outcomes, applied \in BOOLEAN :
          RecordedRepairDelete(queue_id, outcome, applied)
    \/ \E queue_id \in QueueIds, position \in Positions, outcome \in Outcomes,
          applied \in BOOLEAN :
          RecordedRepairTruncate(queue_id, position, outcome, applied)
    \/ InitDone

InitSpec == Init /\ [][RecordedInit]_vars


(***************************************************************************)
(* Properties                                                              *)
(***************************************************************************)

Held == {"p_held", "f_held"}

\* A task is between the two steps of set_status.
InSetStatus == pc[InitTask] \in {"send_failed", "send_ready"}

\* C1 (lock gating): a call that reads Initializing from the channel returns the
\* initializing error and no other call does; a call returns the failed error only
\* when inner.status is Failed; a guard is returned, and held, only while
\* inner.status is Ready; and a call that got its locks returns nothing else (the
\* expect on the WAL slot never panics).
LockGating ==
    \A c \in Callers :
        /\ pc[c] \in Held => status = "Ready" /\ result[c] = "Guard"
        /\ result[c] = "Guard" => status = "Ready" /\ pc[c] \in Held
        /\ (seen[c] = "Initializing") <=> (result[c] = "ErrInitializing")
        /\ result[c] = "ErrFailed" => status = "Failed"
        /\ status = "Failed" => result[c] \in {"none", "pending", "ErrInitializing", "ErrFailed"}
        /\ result[c] # "Panic"

\* C1 witness: one caller holds a guard under status Ready while the other one's
\* call was turned away during initialization.
LockGatingWitness ==
    \E c, d \in Callers :
        /\ result[c] = "Guard" /\ pc[c] = "f_held"
        /\ result[d] = "ErrInitializing"

\* C2 (non-blocking initialization): a call that returned the initializing error
\* asked for no lock, and while the channel holds Initializing both methods can
\* return that error at once, whoever holds the locks.
NonBlockingInit ==
    \A c \in Callers :
        /\ result[c] = "ErrInitializing" => requested[c] = <<>>
        /\ (pc[c] = "idle" /\ status_rx = "Initializing") =>
              /\ ENABLED (LockPartiallyGate(c) /\ result'[c] = "ErrInitializing"
                          /\ pc'[c] = "idle")
              /\ ENABLED (LockFullyGate(c) /\ result'[c] = "ErrInitializing"
                          /\ pc'[c] = "idle")

\* C2 witness: a call has returned the initializing error while init holds both
\* locks and has not published yet.
NonBlockingInitWitness ==
    \E c \in Callers :
        /\ result[c] = "ErrInitializing"
        /\ requested[c] = <<>>
        /\ inner_lock = InitTask
        /\ wal_writer = InitTask
        /\ status_rx = "Initializing"

\* C3 (WAL open failure): once init has returned with status Failed, Failed is
\* published, no shard and no rate tracker is registered, the slot is empty, init
\* holds no lock, nobody holds or gets a guard, no call panics, and a call that
\* passed the gate returns the failed error.
WalOpenFailure ==
    (pc[InitTask] = "done" /\ status = "Failed") =>
        /\ status_rx = "Failed"
        /\ DOMAIN shards = {}
        /\ rate_trackers = {}
        /\ mrecordlog = "None"
        /\ inner_lock # InitTask /\ wal_writer # InitTask
        /\ \A c \in Callers :
              /\ pc[c] \notin Held
              /\ result[c] \notin {"Guard", "Panic"}
              /\ seen[c] = "Failed" => result[c] \in {"pending", "ErrFailed"}

\* C3 witness: after the failed init, a lock_partially call and a lock_fully call
\* have both returned the failed error.
WalOpenFailureWitness ==
    /\ pc[InitTask] = "done" /\ status = "Failed"
    /\ \E c, d \in Callers :
          /\ result[c] = "ErrFailed" /\ requested[c] = <<"inner">>
          /\ result[d] = "ErrFailed" /\ requested[d] = <<"wal", "inner">>

\* C4 (fixed lock order), as claimed: no task asks for the WAL lock while it holds
\* the inner lock.
WalLockBeforeInnerLock ==
    \A t \in Tasks :
        pc[t] \in {"lock_wal", "f_wait_wal", "r_wait"} => inner_lock # t

\* The tasks that block t: the holders of the lock t is waiting for.
BlockedBy(t) ==
    CASE pc[t] \in {"start", "p_wait_inner", "f_wait_inner"} ->
             {inner_lock} \ {NoTask, t}
      [] pc[t] \in {"lock_wal", "f_wait_wal"} ->
             ({wal_writer} \cup wal_readers) \ {NoTask, t}
      [] pc[t] = "r_wait" -> {wal_writer} \ {NoTask, t}
      [] OTHER -> {}

\* Every task of S waits for a lock that another task of S holds.
Deadlocked(S) == S # {} /\ \A t \in S : BlockedBy(t) \cap S # {}

\* C5 (deadlock freedom): no set of tasks is such that each waits for a lock held
\* by another task of the set.
NoDeadlock == \A S \in SUBSET Tasks : ~Deadlocked(S)

\* C5 witness: init holds the inner lock and waits for the WAL lock, which a fetch
\* task holds for reading.
NoDeadlockWitness ==
    /\ pc[InitTask] = "lock_wal"
    /\ inner_lock = InitTask
    /\ wal_readers # {}
    /\ BlockedBy(InitTask) # {}

\* C6 (monotone lifecycle): the status and the published status start as
\* Initializing and only ever change from Initializing to Ready or to Failed.
MonotoneLifecycle ==
    /\ status = "Initializing" /\ status_rx = "Initializing"
    /\ [][/\ status' # status =>
               status = "Initializing" /\ status' \in {"Ready", "Failed"}
          /\ status_rx' # status_rx =>
               status_rx = "Initializing" /\ status_rx' \in {"Ready", "Failed"}]_vars

\* C6 witness: status Ready has outlived init, its repair and a delete_shard made
\* under a later full lock.
MonotoneLifecycleWitness ==
    /\ status = "Ready" /\ status_rx = "Ready"
    /\ pc[InitTask] = "done"
    /\ last_op.op = "delete_shard" /\ last_op.outcome = "Ok"

\* C7 (status channel agreement): outside the two steps of set_status, which run
\* under the inner lock, the channel holds inner.status; in between it still holds
\* the previous status, never one that inner.status has not taken.
StatusChannelAgreement ==
    /\ ~InSetStatus => status_rx = status
    /\ InSetStatus => inner_lock = InitTask /\ status_rx = "Initializing"
    /\ status_rx \in {"Initializing", status}

\* C7 witness: a caller holds the full lock and both inner.status and the channel
\* are Ready.
StatusChannelAgreementWitness ==
    \E c \in Callers :
        pc[c] = "f_held" /\ status = "Ready" /\ status_rx = "Ready"

\* C8 (map parity): whenever the status is Ready, between any two calls made under
\* a lock and so whenever the inner lock is free, shards and rate_trackers have the
\* same keys.
MapParity == status = "Ready" => DOMAIN shards = rate_trackers

\* C8 witness: a truncate_shard has just removed a dangling shard, the WAL having
\* answered MissingQueue, while another shard stays registered.
MapParityWitness ==
    /\ status = "Ready"
    /\ last_op.op = "truncate_shard" /\ last_op.outcome = "MissingQueue"
    /\ last_op.queue_id \notin DOMAIN shards
    /\ DOMAIN shards # {}

\* C9 (monotone truncation): no step lowers the truncation position of a shard that
\* stays registered, and a truncate_shard whose position is not above the shard's
\* leaves the shards as they are.
MonotoneTruncation ==
    [][/\ \A q \in DOMAIN shards \cap DOMAIN shards' :
             PositionLe(shards[q].truncation_position_inclusive,
                        shards'[q].truncation_position_inclusive)
       /\ \A a \in BOOLEAN :
             (/\ last_op'.op = "truncate_shard"
              /\ last_op'.queue_id \in DOMAIN shards
              /\ PositionLe(last_op'.position,
                            shards[last_op'.queue_id].truncation_position_inclusive)
              /\ truncate_shard(last_op'.queue_id, last_op'.position,
                                last_op'.outcome, a))
             => shards' = shards]_vars

\* C9 witness: a truncate_shard with an offset below the shard's truncation offset
\* has been turned down.
MonotoneTruncationWitness ==
    /\ last_op.op = "truncate_shard"
    /\ last_op.outcome = "NotCalled"
    /\ last_op.queue_id \in DOMAIN shards
    /\ HasOffset(last_op.position)
    /\ shards[last_op.queue_id].truncation_position_inclusive.kind = "Offset"
    /\ last_op.position.offset <
           shards[last_op.queue_id].truncation_position_inclusive.offset

\* C10 (truncation bound), as claimed: the truncation position of a registered shard
\* is never above its replication position.
TruncationBound ==
    \A q \in DOMAIN shards :
        PositionLe(shards[q].truncation_position_inclusive,
                   shards[q].replication_position_inclusive)

(***************************************************************************)
(* Properties of init followed on its own (InitSpec)                       *)
(***************************************************************************)

\* repair_shards calls delete_shard on the queue of the call it has just made, which
\* was a delete_shard too.
SecondDelete ==
    /\ pc[InitTask] = "repair"
    /\ response'.shards_to_delete = response.shards_to_delete - 1
    /\ last_op.op = "delete_shard"
    /\ last_op'.queue_id = last_op.queue_id

RepairCycleOver == pc[InitTask] = "done" /\ history.inspect = "Ok"

\* What C12 promises of the shards after a repair cycle: they are the recovered ones
\* less those read from shards_to_delete, and each one read from shards_to_truncate
\* is truncated at least up to every position read for it.
Converged ==
    /\ DOMAIN shards = DOMAIN history.recovered.shards \ history.deleted
    /\ \A q \in DOMAIN history.truncated \cap DOMAIN shards :
          PositionGe(shards[q].truncation_position_inclusive, history.truncated[q])

LockFullyOrdering ==
    \A c \in Callers :
        /\ requested[c] \in {<<>>, <<"inner">>, <<"wal">>, <<"wal", "inner">>}
        /\ pc[c] = "f_wait_wal" =>
              requested[c] = <<"wal">> /\ inner_lock # c /\ wal_writer # c
        /\ pc[c] = "f_wait_inner" =>
              requested[c] = <<"wal", "inner">> /\ wal_writer = c /\ inner_lock # c
        /\ pc[c] = "f_held" =>
              requested[c] = <<"wal", "inner">> /\ wal_writer = c /\ inner_lock = c
        /\ result[c] = "ErrFailed" =>
              pc[c] = "idle" /\ inner_lock # c /\ wal_writer # c /\ c \notin wal_readers

\* C13 witness: of two concurrent lock_fully calls, one holds the WAL lock and has
\* asked for the inner lock, and the other is waiting for the WAL lock.
LockFullyOrderingWitness ==
    \E c, d \in Callers :
        /\ pc[c] = "f_wait_inner" /\ wal_writer = c /\ inner_lock # c
        /\ pc[d] = "f_wait_wal" /\ wal_writer # d

\* init is past its recovery loop on queue_id and has not started to repair.
RecoveryDoneWith(queue_id) ==
    /\ pc[InitTask] \in {"recover", "send_ready", "inspect"}
    /\ queue_id \in DOMAIN wal \ queue_ids

\* C14 (recovery of non-empty queues): once the recovery loop has handled a queue
\* that holds the offsets first to last, a shard is registered under its id, Closed,
\* replicated up to Offset(last) and truncated up to Beginning when first = 0 and
\* up to Offset(first - 1) otherwise, with a rate tracker under the same id; and no
\* registered shard is ever in a state other than Closed.
RecoveryOfNonEmptyQueues ==
    /\ \A q \in DOMAIN shards : shards[q].shard_state = "Closed"
    /\ \A q \in QueueIds :
          (RecoveryDoneWith(q) /\ wal[q].first < wal[q].next) =>
              /\ q \in DOMAIN shards
              /\ q \in rate_trackers
              /\ shards[q].replication_position_inclusive = Offset(wal[q].next - 1)
              /\ shards[q].truncation_position_inclusive =
                    IF wal[q].first = 0 THEN Beginning ELSE Offset(wal[q].first - 1)

\* C14 witness: recovery is over on a WAL with a queue that starts at offset 0 and
\* one that starts later, both registered.
RecoveryOfNonEmptyQueuesWitness ==
    /\ pc[InitTask] = "inspect"
    /\ \E q1, q2 \in DOMAIN shards :
          /\ wal[q1].first = 0 /\ wal[q1].next > 0
          /\ wal[q2].first > 0 /\ wal[q2].next > wal[q2].first
          /\ shards[q2].truncation_position_inclusive = Offset(wal[q2].first - 1)

(***************************************************************************)
(* Properties of init followed on its own (InitSpec), continued            *)
(***************************************************************************)

\* C15 (empty queue purge), as claimed: once init has returned, a queue that the
\* recovery loop found empty is neither in the WAL, nor in shards, nor in
\* rate_trackers.
EmptyQueuePurgeAsClaimed ==
    pc[InitTask] = "done" =>
        \A q \in history.empty_queues :
            q \notin DOMAIN wal /\ q \notin DOMAIN shards /\ q \notin rate_trackers

\* C15 (empty queue purge), amended: a queue that the recovery loop found empty is
\* never in shards nor in rate_trackers, during init and after it, and it is in the
\* WAL only if its force_delete_queue failed.
EmptyQueuePurge ==
    \A q \in history.empty_queues :
        /\ q \notin DOMAIN shards
        /\ q \notin rate_trackers
        /\ q \in DOMAIN wal => q \in history.purge_failed

\* C15 witness: init has returned after its recovery loop found two empty queues,
\* one that force_delete_queue removed and one on which it failed.
EmptyQueuePurgeWitness ==
    /\ pc[InitTask] = "done"
    /\ \E q1, q2 \in history.empty_queues :
          /\ q1 \notin history.purge_failed /\ q1 \notin DOMAIN wal
          /\ q2 \in history.purge_failed /\ q2 \in DOMAIN wal

(***************************************************************************)
(* init, the fetch tasks and one caller of the two lock methods, under a   *)
(* fair scheduler                                                          *)
(***************************************************************************)

\* The caller whose calls are followed to their end.
Caller == CHOOSE c \in Callers : TRUE

\* The caller calls a lock method, is granted a lock or drops its guard.
LockStep(c) ==
    \/ LockPartiallyGate(c)
    \/ LockPartiallyAcquire(c)
    \/ DropPartial(c)
    \/ LockFullyGate(c)
    \/ LockFullyLockWal(c)
    \/ LockFullyAcquire(c)
    \/ DropFull(c)

FairNext ==
    \/ InitStep
    \/ LockStep(Caller)
    \/ \E f \in Fetchers : FetchStep(f)

\* The runtime keeps polling the init task, whose WAL operations and RPC return; a
\* fetch task drops its guard; and the queue of the WAL lock is fair, so init is
\* served when the lock is free again and again.
Fairness ==
    /\ WF_vars(InitStep)
    /\ SF_vars(InitLockWal)
    /\ \A f \in Fetchers : WF_vars(FetchUnlock(f))

FairSpec == Init /\ [][FairNext]_vars /\ Fairness

\* init has returned after publishing Ready.
InitEndedReady == pc[InitTask] = "done" /\ status = "Ready"

\* A call of the caller that has passed the gate has returned no error, and it gets
\* the next lock it waits for, or its guard, as soon as that lock is free.
CallSucceeds(c) ==
    /\ seen[c] = "Ready" => result[c] \in {"pending", "Guard"}
    /\ pc[c] = "idle" =>
          /\ ENABLED (LockPartiallyGate(c) /\ pc'[c] = "p_wait_inner")
          /\ ENABLED (LockFullyGate(c) /\ pc'[c] = "f_wait_wal")
    /\ (pc[c] = "p_wait_inner" /\ InnerFree) =>
          ENABLED (LockPartiallyAcquire(c) /\ result'[c] = "Guard")
    /\ (pc[c] = "f_wait_wal" /\ WalFreeForWrite) => ENABLED LockFullyLockWal(c)
    /\ (pc[c] = "f_wait_inner" /\ InnerFree) =>
          ENABLED (LockFullyAcquire(c) /\ result'[c] = "Guard")

\* C16 (init completion): init terminates; it ends holding no lock, with its status
\* published, Ready unless the WAL failed to open, and then with the WAL in its
\* slot; and once it has ended with Ready both methods pass their gate and a call
\* gets its locks and its guard, never an error.
InitCompletion ==
    /\ <>(pc[InitTask] = "done")
    /\ [](pc[InitTask] = "done" =>
            /\ inner_lock # InitTask /\ wal_writer # InitTask
            /\ status \in {"Ready", "Failed"} /\ status_rx = status
            /\ status = "Ready" => mrecordlog = "Some")
    /\ [](InitEndedReady => CallSucceeds(Caller))

\* C16 witness: init has returned with Ready after a recovery loop that failed to
\* delete an empty queue, and a call made since then holds the full lock.
InitCompletionWitness ==
    /\ InitEndedReady
    /\ \E q \in DOMAIN wal : QueueIsEmpty(wal, q) /\ q \notin DOMAIN shards
    /\ pc[Caller] = "f_held" /\ result[Caller] = "Guard"

(***************************************************************************)
(* Properties of the tasks running together (Spec): the calls made under   *)
(* the full lock                                                           *)
(***************************************************************************)

\* The step is a call made under the full lock, by init in repair_shards or by a
\* caller holding its guard: no task moves and last_op' is the call.
CallUnderFullLock ==
    /\ pc' = pc
    /\ pc[InitTask] = "repair" \/ \E c \in Callers : pc[c] = "f_held"

DeleteCall == CallUnderFullLock /\ last_op'.op = "delete_shard"
TruncateCall == CallUnderFullLock /\ last_op'.op = "truncate_shard"

\* C17 (delete_shard outcomes): a delete_shard of a queue that is not in shards does
\* not call the WAL and changes nothing; when the WAL answers Ok or MissingQueue the
\* queue is removed from shards and from rate_trackers, and only it; when the WAL
\* answers with an I/O error shards and rate_trackers are unchanged.
DeleteShardOutcomes ==
    [][DeleteCall =>
          LET q == last_op'.queue_id
              o == last_op'.outcome
          IN  /\ q \notin DOMAIN shards =>
                    o = "NotCalled" /\ UNCHANGED <<shards, rate_trackers, wal>>
              /\ o \in {"Ok", "MissingQueue"} =>
                    /\ q \in DOMAIN shards
                    /\ shards' = RemoveKey(shards, q)
                    /\ rate_trackers' = rate_trackers \ {q}
              /\ o = "IoError" => UNCHANGED <<shards, rate_trackers>>]_vars

\* C17 witness: under a caller's full lock the WAL has answered a delete_shard with
\* an I/O error and the shard and its rate tracker are still registered.
DeleteShardOutcomesWitness ==
    /\ \E c \in Callers : pc[c] = "f_held"
    /\ last_op.op = "delete_shard" /\ last_op.outcome = "IoError"
    /\ last_op.queue_id \in DOMAIN shards
    /\ last_op.queue_id \in rate_trackers

\* C18 (truncate_shard no-op cases): a truncate_shard up to Beginning, or of a queue
\* that is not in shards, or up to a position that the shard's truncation position
\* has reached, does not call the WAL and leaves shards, rate_trackers and the WAL
\* as they are.
TruncateShardNoOp ==
    [][TruncateCall =>
          LET q == last_op'.queue_id
              p == last_op'.position
          IN  (\/ p = Beginning
               \/ q \notin DOMAIN shards
               \/ PositionGe(shards[q].truncation_position_inclusive, p)) =>
                  /\ last_op'.outcome = "NotCalled"
                  /\ UNCHANGED <<shards, rate_trackers, wal>>]_vars

\* C18 witness: a truncate_shard up to an offset, of a queue that the WAL holds and
\* that has no shard, has been turned down.
TruncateShardNoOpWitness ==
    /\ last_op.op = "truncate_shard" /\ last_op.outcome = "NotCalled"
    /\ HasOffset(last_op.position)
    /\ last_op.queue_id \notin DOMAIN shards
    /\ last_op.queue_id \in DOMAIN wal

\* C19 (truncate_shard outcomes): when truncate_shard calls the WAL, the shard was
\* registered; on Ok its truncation position becomes up_to and nothing else of the
\* shards and rate trackers changes; on MissingQueue the shard and its rate tracker
\* are removed, and only they; on an I/O error shards and rate_trackers are
\* unchanged; and the status and the slot are never touched.
TruncateShardOutcomes ==
    [][TruncateCall =>
          LET q == last_op'.queue_id
              p == last_op'.position
              o == last_op'.outcome
          IN  /\ o # "NotCalled" => q \in DOMAIN shards /\ HasOffset(p)
              /\ o = "Ok" =>
                    /\ shards' = [shards EXCEPT ![q].truncation_position_inclusive = p]
                    /\ rate_trackers' = rate_trackers
              /\ o = "MissingQueue" =>
                    /\ shards' = RemoveKey(shards, q)
                    /\ rate_trackers' = rate_trackers \ {q}
              /\ o = "IoError" => UNCHANGED <<shards, rate_trackers>>
              /\ UNCHANGED <<status, status_rx, mrecordlog>>]_vars

\* C19 witness: the WAL has answered Ok to a truncate_shard of one of two registered
\* shards, whose truncation position is now the position asked for.
TruncateShardOutcomesWitness ==
    /\ last_op.op = "truncate_shard" /\ last_op.outcome = "Ok"
    /\ last_op.queue_id \in DOMAIN shards
    /\ shards[last_op.queue_id].truncation_position_inclusive = last_op.position
    /\ DOMAIN shards = QueueIds

(***************************************************************************)
(* Properties of init followed on its own (InitSpec): the repair RPC       *)
(***************************************************************************)

\* C20 (repair RPC failure): once inspect_shards has failed, init has returned
\* without any delete_shard or truncate_shard call, and shards, rate_trackers and
\* the WAL are what recovery left, under status Ready, published.
RepairRpcFailure ==
    history.inspect = "Err" =>
        /\ pc[InitTask] = "done"
        /\ history.deleted = {} /\ history.truncated = <<>> /\ last_op = NoOp
        /\ shards = history.recovered.shards
        /\ rate_trackers = history.recovered.rate_trackers
        /\ wal = history.recovered.wal
        /\ status = "Ready" /\ status_rx = "Ready"

\* C20 witness: inspect_shards has failed after a recovery that registered a shard.
RepairRpcFailureWitness ==
    /\ history.inspect = "Err"
    /\ pc[InitTask] = "done"
    /\ DOMAIN shards # {}
    /\ shards = history.recovered.shards

(***************************************************************************)
(* Properties of the tasks running together (Spec): init and the others    *)
(***************************************************************************)

\* init is somewhere between its recovery loop and the end of repair_shards.
InRecoveryOrRepair == pc[InitTask] \in {"recover", "send_ready", "inspect", "repair"}

\* C21 (init holds both locks through recovery and repair): from the recovery loop
\* to the end of repair, also once Ready is published, init holds the inner lock and
\* the WAL lock for writing, no caller holds a guard and no fetch task holds the WAL
\* lock for reading.
InitHoldsBothLocks ==
    InRecoveryOrRepair =>
        /\ inner_lock = InitTask
        /\ wal_writer = InitTask
        /\ wal_readers = {}
        /\ \A c \in Callers : pc[c] \notin Held /\ result[c] # "Guard"
        /\ \A f \in Fetchers : pc[f] # "r_held"

\* C21 witness: Ready is published and repair has deleted a shard while a
\* lock_partially call, a lock_fully call and a fetch task wait for their locks.
InitHoldsBothLocksWitness ==
    /\ pc[InitTask] = "repair" /\ status_rx = "Ready"
    /\ last_op.op = "delete_shard" /\ last_op.outcome = "Ok"
    /\ \E c, d \in Callers : pc[c] = "p_wait_inner" /\ pc[d] = "f_wait_wal"
    /\ \E f \in Fetchers : pc[f] = "r_wait"

(***************************************************************************)
(* The tasks running together, with an init task that may be cancelled     *)
(***************************************************************************)

\* The init future is dropped at one of its awaits before set_status: while it waits
\* for the inner lock or for the WAL lock, while the WAL opens, or in the recovery
\* loop. Its guards are dropped with it; what it wrote under them stays.
InitCancel ==
    /\ pc[InitTask] \in {"start", "lock_wal", "open", "recover"}
    /\ Release(InitTask)
    /\ Goto(InitTask, "cancelled")
    /\ UNCHANGED <<inner_vars, mrecordlog, wal, init_vars, call_vars, last_op, history>>

CancelNext == Next \/ InitCancel

CancelSpec == Init /\ [][CancelNext]_vars

\* C22 (cancellation during init): once init has been cancelled before publishing,
\* it holds no lock, inner.status and the channel hold Initializing, the slot is
\* empty, and every call of lock_partially and lock_fully returns the initializing
\* error: no caller waits for a lock or holds a guard.
CancelledInit ==
    pc[InitTask] = "cancelled" =>
        /\ inner_lock # InitTask /\ wal_writer # InitTask
        /\ status = "Initializing" /\ status_rx = "Initializing"
        /\ mrecordlog = "None"
        /\ \A c \in Callers :
              /\ pc[c] = "idle"
              /\ result[c] \in {"none", "ErrInitializing"}
              /\ ENABLED (LockPartiallyGate(c) /\ result'[c] = "ErrInitializing")
              /\ ENABLED (LockFullyGate(c) /\ result'[c] = "ErrInitializing")
              /\ ~ENABLED (LockPartiallyGate(c) /\ result'[c] # "ErrInitializing")
              /\ ~ENABLED (LockFullyGate(c) /\ result'[c] # "ErrInitializing")

\* C22 witness: init was cancelled in its recovery loop, after it had registered a
\* shard, both locks are free and a call made since then was turned away.
CancelledInitWitness ==
    /\ pc[InitTask] = "cancelled"
    /\ DOMAIN shards # {}
    /\ inner_lock = NoTask /\ wal_writer = NoTask
    /\ \E c \in Callers : result[c] = "ErrInitializing"

(***************************************************************************)
(* FullyLockedIngesterState::inspect_shards: the request it builds         *)
(***************************************************************************)

\* The keys shards may have when the request is built: queues of three sources, one
\* of them with two shards, and a key that is no queue id.
InspectQueueIds ==
    {"idx1:src1:1", "idx1:src1:2", "idx1:src2:1", "idx2:src1:1", "not a queue id"}

\* split_queue_id: the index, the source and the shard of a queue id, or nothing.
split_queue_id(queue_id) ==
    CASE queue_id = "idx1:src1:1" ->
             [some |-> TRUE, index_uid |-> "idx1", source_id |-> "src1", shard_id |-> 1]
      [] queue_id = "idx1:src1:2" ->
             [some |-> TRUE, index_uid |-> "idx1", source_id |-> "src1", shard_id |-> 2]
      [] queue_id = "idx1:src2:1" ->
             [some |-> TRUE, index_uid |-> "idx1", source_id |-> "src2", shard_id |-> 1]
      [] queue_id = "idx2:src1:1" ->
             [some |-> TRUE, index_uid |-> "idx2", source_id |-> "src1", shard_id |-> 1]
      [] OTHER -> [some |-> FALSE]

\* Every order in which the elements of S can be met, each once.
Orders(S) == {o \in [1..Cardinality(S) -> S] : \A x \in S : \E i \in DOMAIN o : o[i] = x}

\* per_source_shard_ids.entry(source).or_insert_with(Vec::new).push(shard_id), with
\* an entry that forgets what it held.
EntryReplaced(per_source_shard_ids, source, shard_id) ==
    InsertKey(per_source_shard_ids, source, <<shard_id>>)

\* per_source_shard_ids.entry(source).or_insert_with(Vec::new).push(shard_id)
EntryPushed(per_source_shard_ids, source, shard_id) ==
    InsertKey(per_source_shard_ids, source,
              IF source \in DOMAIN per_source_shard_ids
              THEN Append(per_source_shard_ids[source], shard_id)
              ELSE <<shard_id>>)

\* The loop of inspect_shards over the first n keys, met in the order `keys`.
RECURSIVE PerSourceShardIds(_, _)
PerSourceShardIds(keys, n) ==
    IF n = 0 THEN <<>>
    ELSE LET per_source_shard_ids == PerSourceShardIds(keys, n - 1)
             parts == split_queue_id(keys[n])
         IN  IF ~parts.some THEN per_source_shard_ids
             ELSE EntryPushed(per_source_shard_ids,
                              <<parts.index_uid, parts.source_id>>, parts.shard_id)

\* The request made of the map, its entries taken in the order `sources`.
InspectShardsRequest(per_source_shard_ids, sources) ==
    [i \in DOMAIN sources |->
        [index_uid |-> sources[i][1],
         source_id |-> sources[i][2],
         shard_ids |-> per_source_shard_ids[sources[i]],
         shard_positions |-> <<>>]]

\* The requests inspect_shards may build from the keys of shards: a hash map is
\* iterated in any order.
InspectShardsRequests(keys) ==
    UNION {{InspectShardsRequest(PerSourceShardIds(o, Len(o)), s) :
               s \in Orders(DOMAIN PerSourceShardIds(o, Len(o)))} : o \in Orders(keys)}

\* init is about to inspect, after a recovery that registered any of the keys.
InspectInit ==
    /\ status = "Ready"
    /\ status_rx = "Ready"
    /\ \E keys \in SUBSET InspectQueueIds :
          /\ shards = [q \in keys |-> NewSolo("Closed", Offset(0), Beginning)]
          /\ rate_trackers = keys
          /\ wal = [q \in keys |-> [first |-> 0, next |-> 1]]
    /\ mrecordlog = "Some"
    /\ inner_lock = InitTask
    /\ wal_writer = InitTask
    /\ wal_readers = {}
    /\ pc = [t \in Tasks |-> IF t = InitTask THEN "inspect" ELSE "idle"]
    /\ queue_ids = {}
    /\ response = NoResponse
    /\ seen = [c \in Callers |-> "none"]
    /\ result = [c \in Callers |-> "none"]
    /\ requested = [c \in Callers |-> <<>>]
    /\ last_op = NoOp
    /\ history = NoHistory

\* inspect_shards builds its request and sends it.
InspectSend(inspect_shards_request) ==
    /\ pc[InitTask] = "inspect"
    /\ history.inspect = "none"
    /\ inspect_shards_request \in InspectShardsRequests(DOMAIN shards)
    /\ history' = [history EXCEPT !.inspect = "Sent",
                                  !.request = inspect_shards_request]
    /\ UNCHANGED <<inner_vars, mrecordlog, wal, lock_vars, pc, init_vars, call_vars,
                   last_op>>

\* The request is answered, or the RPC fails.
InspectNext ==
    \/ \E r \in InspectShardsRequests(DOMAIN shards) : InspectSend(r)
    \/ history.inspect = "Sent" /\ \E r \in Responses : InitInspectOk(r)
    \/ history.inspect = "Sent" /\ InitInspectFailed

InspectSpec == InspectInit /\ [][InspectNext]_vars

\* The index and source of the registered queues whose ids parse.
RegisteredSources ==
    {<<split_queue_id(q).index_uid, split_queue_id(q).source_id>> :
        q \in {k \in DOMAIN shards : split_queue_id(k).some}}

\* The shard ids of the registered queues of one index and source.
RegisteredShardIds(source) ==
    {split_queue_id(q).shard_id :
        q \in {k \in DOMAIN shards :
                  /\ split_queue_id(k).some
                  /\ <<split_queue_id(k).index_uid, split_queue_id(k).source_id>> = source}}

\* C23: the request inspect_shards sends holds exactly one entry for each index and
\* source among the registered shards; the entry lists the shard ids of the
\* registered queues of that index and source, each once and no other, and no
\* position; a key that does not parse adds nothing to any entry.
InspectRequestShape ==
    history.inspect = "Sent" =>
        LET request == history.request
            SourceOf(i) == <<request[i].index_uid, request[i].source_id>>
        IN  /\ \A i, j \in DOMAIN request : SourceOf(i) = SourceOf(j) => i = j
            /\ {SourceOf(i) : i \in DOMAIN request} = RegisteredSources
            /\ \A i \in DOMAIN request :
                  /\ Len(request[i].shard_ids) = Cardinality(RegisteredShardIds(SourceOf(i)))
                  /\ {request[i].shard_ids[n] : n \in DOMAIN request[i].shard_ids}
                        = RegisteredShardIds(SourceOf(i))
                  /\ request[i].shard_positions = <<>>

\* A request sent for the two shards of one source, a shard of another source and a
\* key that does not parse.
InspectRequestShapeWitness ==
    /\ history.inspect = "Sent"
    /\ {"idx1:src1:1", "idx1:src1:2", "idx2:src1:1", "not a queue id"} \subseteq DOMAIN shards
    /\ Len(history.request) >= 2
    /\ \E i \in DOMAIN history.request : Len(history.request[i].shard_ids) = 2
    /\ pc[InitTask] = "repair"

\* C24: a task other than init that holds a guard on the WAL slot, the write guard
\* of lock_fully or a read guard on the lock mrecordlog() hands out, finds the WAL in
\* the slot; a call that found no WAL ended with an error and holds no guard.
WalSlotSeenFilled ==
    \A t \in Tasks \ {InitTask} :
        (t \in wal_readers \/ wal_writer = t) => mrecordlog = "Some"

\* A step of repair_shards that handles an entry of shards_to_truncate.
RepairTruncateStep ==
    /\ pc[InitTask] = "repair"
    /\ response'.shards_to_truncate < response.shards_to_truncate

\* C25: repair_shards handles an entry of shards_to_truncate only when no entry of
\* shards_to_delete is left; a shard whose WAL delete returned Ok is no longer
\* registered from then on, and an entry of shards_to_truncate that names it finds
\* no shard and leaves the WAL alone, the truncate never called.
RepairDeletesBeforeTruncates ==
    [][/\ history'.wal_deleted \cap DOMAIN shards' = {}
       /\ RepairTruncateStep =>
             /\ response.shards_to_delete = 0
             /\ last_op'.queue_id \in history.wal_deleted =>
                   /\ last_op'.outcome = "NotCalled"
                   /\ wal' = wal]_vars

\* The response listed a shard in both lists: its delete returned Ok, its truncate
\* came next and found nothing.
RepairDeletesBeforeTruncatesWitness ==
    /\ pc[InitTask] = "repair"
    /\ history.prev.op = "delete_shard"
    /\ history.prev.outcome = "Ok"
    /\ last_op.op = "truncate_shard"
    /\ last_op.queue_id = history.prev.queue_id
    /\ HasOffset(last_op.position)
    /\ last_op.queue_id \in history.wal_deleted
    /\ last_op.queue_id \in DOMAIN history.recovered.shards
    /\ last_op.queue_id \notin DOMAIN shards

\* C26: the slot is empty when the state is built; its only change is init filling
\* it, at the end of the recovery, holding the WAL write lock, with the status still
\* Initializing in the state and on the channel; it is never emptied; whenever the
\* status is Ready, in the state or on the channel, the slot is filled, and no call
\* of lock_fully reaches its expect with the slot empty.
WalSlotInstalledOnce ==
    /\ mrecordlog = "None"
    /\ [][/\ mrecordlog' # mrecordlog =>
                /\ mrecordlog = "None" /\ mrecordlog' = "Some"
                /\ pc[InitTask] = "recover"
                /\ wal_writer = InitTask /\ wal_readers = {}
                /\ status = "Initializing" /\ status_rx = "Initializing"
          /\ (status' = "Ready" \/ status_rx' = "Ready") => mrecordlog' = "Some"
          /\ \A c \in Callers : result'[c] # "Panic" /\ pc'[c] # "panicked"]_vars

\* The slot has been filled, Ready published, and a call of lock_fully has gone
\* through its expect while init is done.
WalSlotInstalledOnceWitness ==
    /\ mrecordlog = "Some"
    /\ status_rx = "Ready"
    /\ pc[InitTask] = "done"
    /\ \E c \in Callers : pc[c] = "f_held" /\ result[c] = "Guard" /\ wal_writer = c

====
